---------------------------- MODULE Spec2Model ----------------------------
(***************************************************************************)
(* PHQ-9 Companion: the conversation controller (client/src/App.jsx and    *)
(* its earlier revision unnamed/part_000), the narrative sanitizer and the *)
(* LLM relay (server/server.js, two revisions in one file).                *)
(*                                                                         *)
(* Text is a sequence of tokens.  A token is one character where the       *)
(* code's regular expressions look at single characters (".", "!", "?",    *)
(* " ", "\n", "S", "s", "U", "a") and a whole run of letters or digits     *)
(* where they do not ("988", "911", "immediate", "danger").                *)
(***************************************************************************)
EXTENDS Integers, Sequences, FiniteSets, TLC

\* ------------------------------------------------------------------ text

Terminators == {".", "!", "?"}
Whitespace == {" ", "\n"}

IsTerm(c) == c \in Terminators
IsWs(c) == c \in Whitespace
\* \w: every token that is neither whitespace nor punctuation is letters/digits
IsWord(c) == ~IsWs(c) /\ ~IsTerm(c)
\* [sS]
IsS(c) == c \in {"S", "s"}
\* [A-Z]: the token's first character is an upper-case letter
IsUpper(c) == c \in {"S", "U", "Immediate"}
\* lower-casing of a token (the /i flag)
Lower(c) == CASE c = "S" -> "s" [] c = "U" -> "u" [] c = "Immediate" -> "immediate" [] OTHER -> c

Max(S) == CHOOSE x \in S : \A y \in S : y <= x

SubText(t, a, b) == IF a > b THEN <<>> ELSE SubSeq(t, a, b)

\* index of the last token of the whitespace run that starts at p (p-1: none)
WsRunEnd(t, p) == Max({q \in (p - 1)..Len(t) : \A j \in p..q : IsWs(t[j])})

\* String.prototype.trim
TrimText(t) ==
  LET keep == {i \in 1..Len(t) : ~IsWs(t[i])}
  IN IF keep = {} THEN <<>>
     ELSE SubText(t, CHOOSE i \in keep : \A j \in keep : i <= j, Max(keep))

\* /(988|911|immediate danger)/i .test(t)
crisis(t) ==
  \E i \in 1..Len(t) :
     \/ t[i] \in {"988", "911"}
     \/ /\ i + 2 <= Len(t)
        /\ Lower(t[i]) = "immediate" /\ t[i + 1] = " " /\ Lower(t[i + 2]) = "danger"

\* t.match(/[^.!?]+[.!?]/g): from p on, the sentences of t; leading
\* terminators match nothing and text after the last terminator is dropped
RECURSIVE MatchSentences(_, _)
MatchSentences(t, p) ==
  IF p > Len(t) THEN <<>>
  ELSE IF IsTerm(t[p]) THEN MatchSentences(t, p + 1)
  ELSE LET ends == {e \in p..Len(t) : IsTerm(t[e])}
       IN IF ends = {} THEN <<>>
          ELSE LET e == CHOOSE x \in ends : \A y \in ends : x <= y
               IN <<SubText(t, p, e)>> \o MatchSentences(t, e + 1)

\* t.match(/[^.!?]+[.!?]/g) || [t]
SplitSentences(t) ==
  LET m == MatchSentences(t, 1) IN IF m = <<>> THEN <<t>> ELSE m

\* --------------------------------------------- regular-expression replaces
\* Each pattern below is given by the index of the last token of its match
\* starting at token a (0: no match there).  No pattern matches the empty
\* string.

\* "$" under the m flag, after the greedy \s* that starts at p: the furthest
\* place in that whitespace run that is the end of input or is followed by "\n"
LineEndAfter(t, p) ==
  LET r == WsRunEnd(t, p)
      cand == {e \in (p - 1)..(r - 1) : t[e + 1] = "\n"}
  IN IF r = Len(t) THEN r ELSE IF cand = {} THEN 0 ELSE Max(cand)

\* (?:^|\n) under the m flag, at token a
LineStartAt(t, a) == a = 1 \/ t[a - 1] = "\n" \/ t[a] = "\n"

\* /(?:^|\n)\s*[sS]\.\s*$/gm
LineSDotEnd(t, a) ==
  LET k == WsRunEnd(t, a) + 1
  IN IF LineStartAt(t, a) /\ k + 1 <= Len(t) /\ IsS(t[k]) /\ t[k + 1] = "."
     THEN LineEndAfter(t, k + 2) ELSE 0

\* /(?:^|\n)\s*[sS]\s*$/gm
LineSEnd(t, a) ==
  LET k == WsRunEnd(t, a) + 1
  IN IF LineStartAt(t, a) /\ k <= Len(t) /\ IsS(t[k])
     THEN LineEndAfter(t, k + 1) ELSE 0

\* /\s+[sS]\.\s*$/g
TrailSDotEnd(t, a) ==
  LET k == WsRunEnd(t, a) + 1
  IN IF IsWs(t[a]) /\ k + 1 <= Len(t) /\ IsS(t[k]) /\ t[k + 1] = "."
        /\ WsRunEnd(t, k + 2) = Len(t)
     THEN Len(t) ELSE 0

\* /\s+[sS]\s*$/g
TrailSEnd(t, a) ==
  LET k == WsRunEnd(t, a) + 1
  IN IF IsWs(t[a]) /\ k <= Len(t) /\ IsS(t[k]) /\ WsRunEnd(t, k + 1) = Len(t)
     THEN Len(t) ELSE 0

\* /([.?!])\s+[sS]\.\s+(?=[A-Z])/g
MidSDotEnd(t, a) ==
  LET k == WsRunEnd(t, a + 1) + 1
      r == WsRunEnd(t, k + 2)
  IN IF IsTerm(t[a]) /\ k > a + 1 /\ k + 1 <= Len(t) /\ IsS(t[k]) /\ t[k + 1] = "."
        /\ r >= k + 2 /\ r + 1 <= Len(t) /\ IsUpper(t[r + 1])
     THEN r ELSE 0

\* /(\s){2,}/g
WsRunsEnd(t, a) ==
  LET r == WsRunEnd(t, a) IN IF r >= a + 1 THEN r ELSE 0

\* \b before the word token at a
BoundaryBefore(t, a) == a = 1 \/ ~IsWord(t[a - 1])

\* /\bS\.\s*$/i
WordSDotTailEnd(t, a) ==
  IF IsS(t[a]) /\ BoundaryBefore(t, a) /\ a + 1 <= Len(t) /\ t[a + 1] = "."
     /\ WsRunEnd(t, a + 2) = Len(t)
  THEN Len(t) ELSE 0

\* /\bS\.\s+/g
WordSDotWsEnd(t, a) ==
  LET r == WsRunEnd(t, a + 2)
  IN IF t[a] = "S" /\ BoundaryBefore(t, a) /\ a + 1 <= Len(t) /\ t[a + 1] = "."
        /\ r >= a + 2
     THEN r ELSE 0

MatchEnd(rx, t, a) ==
  CASE rx = "lineSDot" -> LineSDotEnd(t, a)
    [] rx = "lineS" -> LineSEnd(t, a)
    [] rx = "trailSDot" -> TrailSDotEnd(t, a)
    [] rx = "trailS" -> TrailSEnd(t, a)
    [] rx = "midSDot" -> MidSDotEnd(t, a)
    [] rx = "wsRuns" -> WsRunsEnd(t, a)
    [] rx = "wordSDotTail" -> WordSDotTailEnd(t, a)
    [] rx = "wordSDotWs" -> WordSDotWsEnd(t, a)

\* what a match of rx at a is replaced by
Replacement(rx, t, a) ==
  CASE rx = "midSDot" -> <<t[a], " ">>
    [] rx = "wsRuns" -> <<" ">>
    [] OTHER -> <<>>

\* String.prototype.replace with a /g pattern: leftmost matches, left to
\* right, none overlapping, every one found in the original text
RECURSIVE ReplaceFrom(_, _, _)
ReplaceFrom(rx, t, p) ==
  IF p > Len(t) THEN <<>>
  ELSE LET e == MatchEnd(rx, t, p)
       IN IF e = 0 THEN <<t[p]>> \o ReplaceFrom(rx, t, p + 1)
          ELSE Replacement(rx, t, p) \o ReplaceFrom(rx, t, e + 1)

ReplaceAll(rx, t) == ReplaceFrom(rx, t, 1)

\* unnamed/part_000: cleanModelText
cleanModelText(t) ==
  IF t = <<>> THEN t
  ELSE LET o1 == ReplaceAll("lineSDot", t)
           o2 == ReplaceAll("lineS", o1)
           o3 == ReplaceAll("trailSDot", o2)
           o4 == ReplaceAll("trailS", o3)
           o5 == ReplaceAll("midSDot", o4)
       IN TrimText(ReplaceAll("wsRuns", o5))

\* App.jsx: the cleanup finish applies inline to the relay's reply
cleanInline(t) ==
  TrimText(ReplaceAll("wsRuns", ReplaceAll("wordSDotWs", ReplaceAll("wordSDotTail", t))))

\* ------------------------------------------------------- guidance and recap

\* a renderable part {text, bold, block}
Part(text, bold, block) == [text |-> text, bold |-> bold, block |-> block]

\* the parts of the kept sentences: texts[i] is what sentence sents[i] shows; a
\* space follows each but the last, and the first is bold
PartsOf(sents, texts, omitCrisis) ==
  [i \in 1..Len(sents) |->
     Part(texts[i] \o (IF i < Len(sents) THEN <<" ">> ELSE <<>>),
          i = 1 \/ (~omitCrisis /\ crisis(sents[i])),
          FALSE)]

\* /^[sS]\.?$/.test(s)
IsOrphanS(s) == (Len(s) = 1 /\ IsS(s[1])) \/ (Len(s) = 2 /\ IsS(s[1]) /\ s[2] = ".")

NotCrisis(s) == ~crisis(s)
NotArtifact(s) == s # <<>> /\ ~IsOrphanS(s)

\* makeGuidanceParts without its crisis filter
OmitCrisisFilterOff(sents, omitCrisis) == sents

\* the crisis filter of makeGuidanceParts (both revisions)
OmitCrisisFilter(sents, omitCrisis) ==
  IF omitCrisis THEN SelectSeq(sents, NotCrisis) ELSE sents

\* App.jsx: makeGuidanceParts
makeGuidancePartsApp(t, omitCrisis) ==
  LET sents == SplitSentences(t)
      filtered == OmitCrisisFilter(sents, omitCrisis)
  IN PartsOf(filtered, [i \in 1..Len(filtered) |-> TrimText(filtered[i])], omitCrisis)

\* unnamed/part_000: makeGuidanceParts
makeGuidancePartsPart000(t, omitCrisis) ==
  LET sents == SplitSentences(t)
      cleaned == [i \in 1..Len(sents) |-> TrimText(cleanModelText(sents[i]))]
      filtered == OmitCrisisFilter(SelectSeq(cleaned, NotArtifact), omitCrisis)
  IN PartsOf(filtered, filtered, omitCrisis)

\* the revision of the client: App.jsx or unnamed/part_000
Impls == {"App", "part_000"}

makeGuidanceParts(im, t, omitCrisis) ==
  IF im = "App" THEN makeGuidancePartsApp(t, omitCrisis)
  ELSE makeGuidancePartsPart000(t, omitCrisis)

\* the cleanup finish applies to the reply before makeGuidanceParts
cleanReply(im, t) == IF im = "App" THEN cleanInline(t) ELSE cleanModelText(t)

\* ------------------------------------------------------ questionnaire data

DOMAINS == <<
  [id |-> "interest", label |-> "Interest", canonical |-> "little interest or pleasure in doing things?"],
  [id |-> "mood", label |-> "Mood", canonical |-> "feeling down, depressed, or hopeless?"],
  [id |-> "sleep", label |-> "Sleep", canonical |-> "trouble falling or staying asleep, or sleeping too much?"],
  [id |-> "energy", label |-> "Energy", canonical |-> "feeling tired or having little energy?"],
  [id |-> "appetite", label |-> "Appetite", canonical |-> "poor appetite or overeating?"],
  [id |-> "self_worth", label |-> "Self-worth", canonical |-> "feeling bad about yourself?"],
  [id |-> "concentration", label |-> "Concentration", canonical |-> "trouble concentrating on things?"],
  [id |-> "psychomotor", label |-> "Psychomotor", canonical |-> "moving or speaking slowly, or being fidgety?"],
  [id |-> "si_dead", label |-> "Safety - better off dead", canonical |-> "thoughts that you would be better off dead?"],
  [id |-> "si_harm", label |-> "Safety - hurting yourself", canonical |-> "thoughts about intentionally harming yourself?"] >>

OPTIONS == <<
  [key |-> "0", label |-> "Not at all", score |-> 0],
  [key |-> "1", label |-> "Several days", score |-> 1],
  [key |-> "2", label |-> "More than half the days", score |-> 2],
  [key |-> "3", label |-> "Nearly every day", score |-> 3] >>

StandardIds ==
  <<"interest", "mood", "sleep", "energy", "appetite", "self_worth", "concentration", "psychomotor">>

\* `${n}` for the numbers the recap prints
NumStr(n) ==
  <<"0", "1", "2", "3", "4", "5", "6", "7", "8", "9", "10", "11", "12", "13", "14", "15",
    "16", "17", "18", "19", "20", "21", "22", "23", "24", "25", "26", "27">>[n + 1]

\* the bands with exclusive upper thresholds
severityExclusive(total) ==
  IF total < 4 THEN "Minimal (0-4)"
  ELSE IF total < 9 THEN "Mild (5-9)"
  ELSE IF total < 14 THEN "Moderate (10-14)"
  ELSE IF total < 19 THEN "Moderately severe (15-19)"
  ELSE "Severe (20-27)"

severityFromTotal(total) ==
  IF total <= 4 THEN "Minimal (0-4)"
  ELSE IF total <= 9 THEN "Mild (5-9)"
  ELSE IF total <= 14 THEN "Moderate (10-14)"
  ELSE IF total <= 19 THEN "Moderately severe (15-19)"
  ELSE "Severe (20-27)"

\* ans[id]?.score ?? 0
ScoreOrZero(ans, id) == IF id \in DOMAIN ans THEN ans[id].score ELSE 0

RECURSIVE SumScores(_, _, _)
SumScores(ans, ids, n) ==
  IF n = 0 THEN 0 ELSE SumScores(ans, ids, n - 1) + ScoreOrZero(ans, ids[n])

MaxOf(a, b) == IF a >= b THEN a ELSE b

\* totalScore with the two safety items added up
totalScoreSum(ans) ==
  LET base == SumScores(ans, StandardIds, Len(StandardIds))
      safety == ScoreOrZero(ans, "si_dead") + ScoreOrZero(ans, "si_harm")
  IN [total |-> base + safety, safety |-> safety,
      siDead |-> ScoreOrZero(ans, "si_dead"), siHarm |-> ScoreOrZero(ans, "si_harm")]

totalScore(ans) ==
  LET base == SumScores(ans, StandardIds, Len(StandardIds))
      safety == MaxOf(ScoreOrZero(ans, "si_dead"), ScoreOrZero(ans, "si_harm"))
  IN [total |-> base + safety, safety |-> safety,
      siDead |-> ScoreOrZero(ans, "si_dead"), siHarm |-> ScoreOrZero(ans, "si_harm")]

\* one recap line per domain: `${i + 1}. ${d.label}: ${label} (score ${score})`
RecapItem(ans, i) ==
  LET d == DOMAINS[i]
  IN <<NumStr(i), ". ", d.label, ": ",
       IF d.id \in DOMAIN ans THEN ans[d.id].label ELSE "Not answered",
       " (score ", IF d.id \in DOMAIN ans THEN NumStr(ans[d.id].score) ELSE "-", ")">>

RECURSIVE RecapItems(_, _)
RecapItems(ans, n) ==
  IF n = 0 THEN <<>> ELSE RecapItems(ans, n - 1) \o <<RecapItem(ans, n)>>

SafetyDetailsLead == "(Safety details) Better off dead: "

\* the lines of the recap that finish builds
RecapLines(ans) ==
  LET s == totalScore(ans)
  IN <<<<"Here's your PHQ-9 summary:">>, <<>>>>
     \o RecapItems(ans, Len(DOMAINS))
     \o << <<"PHQ-9 Total (higher of safety items used): ", NumStr(s.total), " - ",
             severityFromTotal(s.total)>>,
           <<SafetyDetailsLead, NumStr(s.siDead), "; Harming yourself: ", NumStr(s.siHarm),
             "; Combined: ", NumStr(MaxOf(s.siDead, s.siHarm))>> >>

\* lines.join("\n")
RECURSIVE JoinLines(_, _)
JoinLines(lines, n) ==
  IF n = 0 THEN <<>>
  ELSE IF n = 1 THEN lines[1]
  ELSE JoinLines(lines, n - 1) \o <<"\n">> \o lines[n]

RecapText(ans) == JoinLines(RecapLines(ans), Len(RecapLines(ans)))

\* text.split("\n")
RECURSIVE SplitLines(_)
SplitLines(t) ==
  LET nl == {i \in 1..Len(t) : t[i] = "\n"}
  IN IF nl = {} THEN <<t>>
     ELSE LET i == CHOOSE x \in nl : \A y \in nl : x <= y
          IN <<SubText(t, 1, i - 1)>> \o SplitLines(SubText(t, i + 1, Len(t)))

makeRecapParts(text) ==
  LET lines == SplitLines(text)
  IN [i \in 1..Len(lines) |-> Part(lines[i], crisis(lines[i]), TRUE)]

\* ---------------------------------------------------------------- messages

TextMsg(role, content) == [role |-> role, kind |-> "content", body |-> content]
PartsMsg(parts) == [role |-> "assistant", kind |-> "parts", body |-> parts]
BoxMsg(parts) == [role |-> "assistant", kind |-> "box", body |-> parts]

IntroText == <<"I'll ask 10 short questions about the past two weeks. Please choose one answer for each.">>
FallbackText == <<"Thanks for completing this check-in. If symptoms persist or affect daily life, consider speaking with a clinician you trust.">>

\* pushQuestion's text for the 0-based qIndex: `${qIndex + 1}. ` + d.canonical
QuestionText(qIndex) == <<NumStr(qIndex + 1), ". ", DOMAINS[qIndex + 1].canonical>>

CautionParts ==
  << Part(<<"Because you noted thoughts of self-harm, it's important to reach out for support - if you ever feel unsafe or might act on these thoughts, call or text ">>, FALSE, FALSE),
     Part(<<"988">>, TRUE, FALSE),
     Part(<<" ", "in the U.S., or", " ">>, FALSE, FALSE),
     Part(<<"911">>, TRUE, FALSE),
     Part(<<" ", "if you are in", " ", "immediate", " ", "danger", ".">>, TRUE, FALSE) >>

\* the system prompt of the summary request, per revision of the client
SYSTEM_SUMMARY_ONLY(im) ==
  IF im = "App"
  THEN <<"You are PHQ-9 Companion, an empathetic pre-diagnostic wellbeing coach ...">>
  ELSE <<"You are PHQ-9 Companion, a pre-diagnostic wellbeing companion ...">>

\* the msgs finish passes to callLLM
SummaryMsgs(im, ans) ==
  LET s == totalScore(ans)
  IN << [role |-> "system", content |-> SYSTEM_SUMMARY_ONLY(im)],
        [role |-> "user", content |-> RecapText(ans)],
        [role |-> "user",
         content |-> <<"PHQ-9 total: ", NumStr(s.total), " (", severityFromTotal(s.total),
                       "). ", "Write the guidance.">>] >>

\* ---------------------------------------------------------------- the relay

Variants == {1, 2}

\* a JSON value: a string (its text in val), an array (its items in val), or
\* anything else, which the relay treats as it treats undefined
Str(t) == [type |-> "string", val |-> t]
Arr(items) == [type |-> "array", val |-> items]
Undef == [type |-> "undefined", val |-> <<>>]

\* the body of the external endpoint's response, as far as extractReply reads
\* it: output_text, output (an array of items, each the texts of its content
\* parts, <<>> for a part without text), content, message, and
\* choices[0].message.content
Data(output_text, output, content, message, choice) ==
  [output_text |-> output_text, output |-> output, content |-> content,
   message |-> message, choice |-> choice]

\* null, and every object without these fields
NullData == Data(Undef, Undef, Undef, Undef, Undef)

IsNonBlank(v) == v.type = "string" /\ TrimText(v.val) # <<>>

\* items.flatMap(item => (item?.content || []).map(part => part?.text).filter(Boolean))
RECURSIVE FlatTexts(_)
FlatTexts(items) ==
  IF items = <<>> THEN <<>>
  ELSE SelectSeq(Head(items), LAMBDA x : x # <<>>) \o FlatTexts(Tail(items))

\* texts.join(' ')
RECURSIVE JoinSpace(_)
JoinSpace(texts) ==
  IF texts = <<>> THEN <<>>
  ELSE IF Len(texts) = 1 THEN texts[1]
  ELSE texts[1] \o <<" ">> \o JoinSpace(Tail(texts))

OutputText(d) == TrimText(JoinSpace(FlatTexts(d.output.val)))

Found(t) == [null |-> FALSE, val |-> t]
NotFound == [null |-> TRUE, val |-> <<>>]

\* extractReply of the first revision
extractReply1(d) ==
  IF IsNonBlank(d.output_text) THEN Found(TrimText(d.output_text.val))
  ELSE IF d.output.type = "array" /\ OutputText(d) # <<>> THEN Found(OutputText(d))
  ELSE IF d.choice.type = "string" THEN Found(TrimText(d.choice.val))
  ELSE NotFound

\* extractReply of the second revision
extractReply2(d) ==
  IF IsNonBlank(d.output_text) THEN Found(TrimText(d.output_text.val))
  ELSE IF d.output.type = "array" /\ OutputText(d) # <<>> THEN Found(OutputText(d))
  ELSE IF IsNonBlank(d.content) THEN Found(TrimText(d.content.val))
  ELSE IF IsNonBlank(d.message) THEN Found(TrimText(d.message.val))
  ELSE IF IsNonBlank(d.choice) THEN Found(TrimText(d.choice.val))
  ELSE NotFound

\* extractReply trying the legacy shape first
extractReplyLegacyFirst(v, d) ==
  IF IsNonBlank(d.choice) THEN Found(TrimText(d.choice.val))
  ELSE IF IsNonBlank(d.output_text) THEN Found(TrimText(d.output_text.val))
  ELSE IF d.output.type = "array" /\ OutputText(d) # <<>> THEN Found(OutputText(d))
  ELSE NotFound

extractReply(v, d) == IF v = 1 THEN extractReply1(d) ELSE extractReply2(d)

\* RISK_PATTERNS of the two revisions; a text is a sequence of words, spaces
\* and punctuation marks, and a pattern is the sequence of its own ((u2019) is
\* the typographic apostrophe)
RISK_PATTERNS(v) ==
  {<<"suicide">>, <<"kill", " ", "myself">>, <<"end", " ", "my", " ", "life">>,
   <<"self", "-", "harm">>, <<"self", " ", "harm">>, <<"hurt", " ", "myself">>,
   <<"take", " ", "my", " ", "life">>, <<"better", " ", "off", " ", "dead">>}
  \cup (IF v = 2
        THEN {<<"can't", " ", "go", " ", "on">>, <<"can(u2019)t", " ", "go", " ", "on">>}
        ELSE {})

\* lower-casing of a word or phrase
LowerPhrase(c) ==
  CASE c = "Better" -> "better"
    [] c = "SUICIDE" -> "suicide"
    [] c = "Kill" -> "kill"
    [] c = "Self" -> "self"
    [] c = "Can't" -> "can't"
    [] c = "I" -> "i"
    [] c = "Write the guidance." -> "write the guidance."
    [] c = "PHQ-9 total: " -> "phq-9 total: "
    [] c = "You are PHQ-9 Companion, an empathetic pre-diagnostic wellbeing coach ..."
         -> "you are phq-9 companion, an empathetic pre-diagnostic wellbeing coach ..."
    [] c = "You are PHQ-9 Companion, a pre-diagnostic wellbeing companion ..."
         -> "you are phq-9 companion, a pre-diagnostic wellbeing companion ..."
    [] OTHER -> Lower(c)

\* t.includes(p)
Includes(t, p) ==
  \E i \in 1..(Len(t) - Len(p) + 1) : SubSeq(t, i, i + Len(p) - 1) = p

\* the words of the phrases of the recap in which a pattern's words occur
Words(c) ==
  CASE c = "Safety - better off dead"
         -> <<"Safety", " ", "-", " ", "better", " ", "off", " ", "dead">>
    [] c = "(Safety details) Better off dead: "
         -> <<"(Safety details)", " ", "Better", " ", "off", " ", "dead", ":", " ">>
    [] OTHER -> <<c>>

RECURSIVE WordsOf(_)
WordsOf(s) == IF s = <<>> THEN <<>> ELSE Words(Head(s)) \o WordsOf(Tail(s))

containsRiskLanguage(v, s) ==
  LET w == WordsOf(s)
      t == [i \in 1..Len(w) |-> LowerPhrase(w[i])]
  IN \E p \in RISK_PATTERNS(v) : Includes(t, p)

\* SUMMARY_HINT_RX.test(content): the phrases of the pattern's alternatives
\* that the messages of the model can hold
SummaryHints ==
  {"phq-9 total: ", "write the guidance.",
   "you are phq-9 companion, an empathetic pre-diagnostic wellbeing coach ...",
   "you are phq-9 companion, a pre-diagnostic wellbeing companion ..."}

HasSummaryHint(content) == \E i \in 1..Len(content) : LowerPhrase(content[i]) \in SummaryHints

\* a relay whose summary pattern matches nothing
clientHasSummaryOnlyNever(messages) == FALSE

\* messages.some(m => SUMMARY_HINT_RX.test(m?.content || ''))
clientHasSummaryOnly(messages) ==
  \E i \in 1..Len(messages) : HasSummaryHint(messages[i].content)

IsUserRole(m) == m.role = "user"

\* contents.join('\n')
RECURSIVE JoinNewline(_)
JoinNewline(contents) ==
  IF contents = <<>> THEN <<>>
  ELSE IF Len(contents) = 1 THEN contents[1]
  ELSE contents[1] \o <<"\n">> \o JoinNewline(Tail(contents))

\* messages.filter(m => m?.role === 'user').slice(-4), their contents joined
recentUserText(messages) ==
  LET users == SelectSeq(messages, IsUserRole)
      last == SubText(users, IF Len(users) > 4 THEN Len(users) - 3 ELSE 1, Len(users))
  IN JoinNewline([i \in 1..Len(last) |-> last[i].content])

\* text.replace(/\s+/g, ' '), from p on
RECURSIVE NormalizeFrom(_, _)
NormalizeFrom(t, p) ==
  IF p > Len(t) THEN <<>>
  ELSE IF IsWs(t[p]) THEN <<" ">> \o NormalizeFrom(t, WsRunEnd(t, p) + 1)
  ELSE <<t[p]>> \o NormalizeFrom(t, p + 1)

\* /Not at all|Several days|More than half the days|Nearly every day/i
IsChoiceLabel(c) ==
  c \in {"Not at all", "Several days", "More than half the days", "Nearly every day",
         "not at all"}

\* [(u2022)\-*\d]+ : a bullet, or a token that is digits
IsListMark(c) == c \in {"-", "*", "(u2022)", "1", "988", "911"}

\* the characters of a token, as far as the 240 limit can tell: "LongWord" is
\* a word of 241 letters, and the other tokens of a text of the model, at most
\* a few dozen characters each, never add up to 240
CharLen(c) == IF c = "LongWord" THEN 241 ELSE 1

RECURSIVE TextLen(_)
TextLen(t) == IF t = <<>> THEN 0 ELSE CharLen(Head(t)) + TextLen(Tail(t))

GenericQuestion == <<"Over the last 2 weeks, how often have you been bothered by this area?">>

\* sanitizeQuestionText (second revision)
sanitizeQuestionText(t) ==
  IF t = <<>> THEN t
  ELSE LET one == TrimText(NormalizeFrom(t, 1))
           containsChoices == \E i \in 1..Len(one) : IsChoiceLabel(one[i])
           looksListy ==
             \/ \E k \in 1..(Len(one) - 1) :
                   (\A j \in 1..k : IsListMark(one[j])) /\ IsWs(one[k + 1])
             \/ \E i, j \in 1..Len(one) : j > i + 1 /\ one[i] = "/" /\ one[j] = "/"
             \/ \E i, j \in 1..Len(one) : j > i /\ one[i] = ":" /\ one[j] = ","
           endsWithQ == one # <<>> /\ one[Len(one)] = "?"
           tooLong ==
             \/ TextLen(one) > 240
             \/ Cardinality({i \in 1..Len(one) : IsTerm(one[i])}) > 1
       IN IF (containsChoices \/ looksListy \/ tooLong) /\ endsWithQ
          THEN GenericQuestion ELSE one

\* a response of the relay: res.status(status) and a JSON {reply}, a JSON
\* {error}, or text
Resp(status, kind, body) == [status |-> status, kind |-> kind, body |-> body]

RelayFallback(v) ==
  IF v = 1
  THEN <<"Thanks for completing this check-in. Consider small steps this week and when to check in with a clinician you trust.">>
  ELSE <<"Thanks for completing this check-in. Consider which small changes feel doable this week, and when to check in with a clinician you trust.">>

CrisisGuardReply == <<"If you're in the U.S., call 988 (or 911 if in immediate danger).">>

\* the check without its test of the length
NoMessagesUnlessEmpty(body) == body.kind # "array"

\* !Array.isArray(messages) || messages.length === 0
NoMessages(body) == body.kind # "array" \/ body.messages = <<>>

Proceed == [respond |-> FALSE, resp |-> Resp(0, "none", <<>>)]
Reject(resp) == [respond |-> TRUE, resp |-> resp]

\* the handler up to its fetch, without the crisis guard
PreCheckNoGuard(v, key, body) ==
  IF ~key
  THEN Reject(Resp(500, IF v = 1 THEN "error" ELSE "text", <<"Missing OPENAI_API_KEY">>))
  ELSE IF NoMessages(body)
  THEN Reject(Resp(400, "error", <<"messages array required">>))
  ELSE Proceed

\* the handler up to its fetch: the response it returns with, or none
PreCheck(v, key, body) ==
  IF ~key
  THEN Reject(Resp(500, IF v = 1 THEN "error" ELSE "text", <<"Missing OPENAI_API_KEY">>))
  ELSE IF NoMessages(body)
  THEN Reject(Resp(400, "error", <<"messages array required">>))
  ELSE IF v = 2 /\ ~clientHasSummaryOnly(body.messages)
          /\ containsRiskLanguage(v, recentUserText(body.messages))
  THEN Reject(Resp(200, "reply", CrisisGuardReply))
  ELSE Proceed

SYSTEM_HARD_LIKERT == <<"You are Wellbeing PulseCheck, a non-diagnostic clinical assistant. ... Questioning rules ...">>
SYSTEM_SUMMARY_RELAY == <<"You are Wellbeing PulseCheck, a non-diagnostic clinical assistant. Write 4-7 sentences ...">>

\* the input the handler sends to the external endpoint
Input(v, messages) ==
  IF v = 1
  THEN <<[role |-> "system",
          content |-> <<"You are PHQ-9 Companion, a non-diagnostic wellbeing guide.">>]>>
       \o messages
  ELSE <<[role |-> "system",
          content |-> IF clientHasSummaryOnly(messages)
                      THEN SYSTEM_SUMMARY_RELAY ELSE SYSTEM_HARD_LIKERT]>>
       \o messages

\* the catch clause of the handler
OnError(v) ==
  IF v = 1 THEN Resp(500, "error", <<"Server error">>)
  ELSE Resp(500, "text", <<"LLM backend failed">>)

\* a relay that answers a failed fetch with its fallback reply
OnFetchRejectedFallback(v) == Resp(200, "reply", RelayFallback(v))

\* fetch rejected: a network error, or the abort of the timer
OnFetchRejected(v) == OnError(v)

\* !r.ok: the response once r.text() has resolved (readOk) or rejected
OnNotOk(v, status, readOk) ==
  IF v = 1 THEN Resp(502, "error", <<"OpenAI error">>)
  ELSE IF readOk THEN Resp(status, "text", <<"upstream body">>)
  ELSE OnError(v)

\* r.ok: the response once r.json() has resolved with d (parsed) or rejected
OnBody(v, messages, parsed, d) ==
  IF v = 1
  THEN LET r == extractReply(1, IF parsed THEN d ELSE NullData)
       IN IF r.null \/ r.val = <<>> THEN Resp(200, "reply", RelayFallback(1))
          ELSE Resp(200, "reply", r.val)
  ELSE IF ~parsed THEN OnError(v)
  ELSE LET r == extractReply(2, d)
           summary == clientHasSummaryOnly(messages)
           raw == IF r.null THEN <<>> ELSE r.val
           asked == IF ~summary /\ raw # <<>> /\ TrimText(raw) # <<>>
                       /\ TrimText(raw)[Len(TrimText(raw))] = "?"
                    THEN sanitizeQuestionText(raw) ELSE raw
           reply == IF summary /\ TrimText(asked) = <<>> THEN RelayFallback(2) ELSE asked
       IN Resp(200, "reply", IF reply = <<>> THEN <<"(No response)">> ELSE reply)

\* ------------------------------------------------------------------ bounds

\* handlePick invocations, in one session, that come before React has rendered
\* the state the last one set, or after the render with finished = true
MaxExtraClicks == 1

\* ------------------------------------------------------------------- state

VARIABLES
  impl,            \* the client revision that runs
  isAdult, agree,  \* ConsentModal's checkboxes
  consented, chat, answers, idx, finished, loading, selectedOption,  \* App's useState
  rendered,        \* the state the handlers of the last render closed over
  runs,            \* the invocations of finish, in the order they started
  unhandled,       \* an error left finish (handlePick's promise rejected)
  clicks,          \* handlePick invocations so far
  extra,           \* those of them that ran on a render older than the state, or late
  lastPick,        \* what the last handlePick invocation saw and did
  \* ---- the relay, serving one POST /api/llm
  variant,         \* the revision of server.js that runs: 1 or 2
  hasKey,          \* OPENAI_API_KEY is set
  rpc,             \* where the handler is: idle, fetch, errbody, body, done
  req,             \* the request body
  timer,           \* the 25 s timer: unset, armed, cleared, fired
  aborted,         \* ctrl.signal.aborted
  upstream,        \* what the external endpoint has done for this request
  outbound,        \* the inputs sent to the external endpoint, one per fetch
  responses,       \* the responses sent on res
  \* ---- the narrative sanitizer, applied to one text
  text, omit,      \* the arguments of makeGuidanceParts
  parts,           \* what it returned
  tpc,             \* input, done
  \* ---- one function of the program, called alone
  fn,              \* the function called
  arg,             \* its argument
  out,             \* what it returned
  fpc              \* input, done

cvars == <<impl, isAdult, agree, consented, chat, answers, idx, finished, loading,
           selectedOption, rendered, runs, unhandled, clicks, extra, lastPick>>

rvars == <<variant, hasKey, rpc, req, timer, aborted, upstream, outbound, responses>>

tvars == <<text, omit, parts, tpc>>

fvars == <<fn, arg, out, fpc>>

vars == <<cvars, rvars, tvars, fvars>>

\* no response yet from the external endpoint
NoUpstream == [fetch |-> "pending", status |-> 0, read |-> "pending", data |-> NullData]

\* req.body of a request that has not come
NoBody == [kind |-> "none", messages |-> <<>>]

\* the relay before a request
RelayIdle ==
  /\ variant = 1 /\ hasKey = TRUE
  /\ rpc = "idle" /\ req = NoBody
  /\ timer = "unset" /\ aborted = FALSE
  /\ upstream = NoUpstream
  /\ outbound = <<>>
  /\ responses = <<>>

\* the sanitizer before a call
SanitizerIdle == text = <<>> /\ omit = FALSE /\ parts = <<>> /\ tpc = "input"

\* no function called alone
CallIdle == fn = "none" /\ arg = <<>> /\ out = <<>> /\ fpc = "input"

\* the useState values a render's closures read
Snapshot == [consented |-> consented, idx |-> idx, answers |-> answers, finished |-> finished]

NoAnswers == [id \in {} |-> 0]

\* showOpts, in the last render
showOpts == rendered.consented /\ ~rendered.finished

\* the options (by their place in OPTIONS) the user picks from, per question:
\* "Not at all" on the eight standard questions, "Not at all" or "More than
\* half the days" on the two safety questions
PickKeys(qIndex) == IF qIndex >= Len(StandardIds) THEN {1, 3} ELSE {1}

\* ----------------------------------------------------------------- callLLM

\* what the relay call comes to: fetch rejects; a non-2xx status; a 2xx body
\* that is not JSON; JSON whose reply is not a string; JSON with a reply
Response(kind, reply) == [kind |-> kind, reply |-> reply]

FailureKinds == {"fetch_rejects", "not_ok", "json_rejects", "reply_not_string"}

\* the replies the relay sends back in the controller's runs
Replies ==
  { <<"a", ".", " ", "988", ".", " ", "a", ".">>,
    <<" ", "a", ".", " ", "S", ".", " ">> }

Responses ==
  {Response(k, <<>>) : k \in FailureKinds} \cup {Response("reply", t) : t \in Replies}

\* callLLM: throws, or returns json.reply.trim()
callLLM(resp) ==
  IF resp.kind = "reply" THEN [threw |-> FALSE, value |-> TrimText(resp.reply)]
  ELSE [threw |-> TRUE, value |-> <<>>]

\* ------------------------------------------------------------------ finish

\* what callLLM can return
ReturnedTexts == {callLLM(resp).value : resp \in Responses}

\* finish, on success: makeGuidanceParts(cleanLLM, { omitCrisis }), per text
GuidanceOf ==
  [im \in Impls, t \in ReturnedTexts, omitCrisis \in BOOLEAN |->
     makeGuidanceParts(im, cleanReply(im, t), omitCrisis)]

\* the same for any text: the table's entry where it has one
GuidanceFor(im, t, omitCrisis) ==
  IF t \in ReturnedTexts THEN GuidanceOf[im, t, omitCrisis]
  ELSE makeGuidanceParts(im, cleanReply(im, t), omitCrisis)

\* finish without its catch clause: the error of callLLM leaves finish
NarrativeStepNoCatch(im, result, safety) ==
  IF result.threw
  THEN [pushed |-> <<>>, escaped |-> TRUE]
  ELSE [pushed |-> <<PartsMsg(GuidanceFor(im, result.value, safety > 0))>>,
        escaped |-> FALSE]

\* the try / catch / finally of finish, from the settling of callLLM on: the
\* messages pushed, and whether the error left finish
NarrativeStep(im, result, safety) ==
  IF result.threw
  THEN [pushed |-> <<TextMsg("assistant", FallbackText)>>, escaped |-> FALSE]
  ELSE [pushed |-> <<PartsMsg(GuidanceFor(im, result.value, safety > 0))>>,
        escaped |-> FALSE]

\* the caution box that follows the try statement
CautionStep(safety) == IF safety > 0 THEN <<BoxMsg(CautionParts)>> ELSE <<>>

\* finish(ans) up to its await: what the run remembers while callLLM is pending
NewRun(im, ans) ==
  [ans |-> ans, safety |-> totalScore(ans).safety, msgs |-> SummaryMsgs(im, ans),
   calls |-> 1, pc |-> "awaiting", threw |-> FALSE, narrAt |-> 0, boxAt |-> 0]

\* ----------------------------------------------------------------- actions

\* the controller before its first render
ControllerIdle ==
  /\ isAdult = FALSE /\ agree = FALSE
  /\ consented = FALSE
  /\ chat = <<>>
  /\ answers = NoAnswers
  /\ idx = 0
  /\ finished = FALSE
  /\ loading = FALSE
  /\ selectedOption = "null"
  /\ rendered = [consented |-> FALSE, idx |-> 0, answers |-> NoAnswers, finished |-> FALSE]
  /\ runs = <<>>
  /\ unhandled = FALSE
  /\ clicks = 0
  /\ extra = 0
  /\ lastPick = [blocked |-> FALSE, stale |-> FALSE, q |-> -1]

Init ==
  /\ impl \in Impls
  /\ ControllerIdle
  /\ RelayIdle
  /\ SanitizerIdle
  /\ CallIdle

\* ConsentModal: the two checkboxes, shown while the modal is open
ToggleAdult ==
  /\ ~rendered.consented
  /\ isAdult' = ~isAdult
  /\ UNCHANGED <<impl, agree, consented, chat, answers, idx, finished, loading,
                 selectedOption, rendered, runs, unhandled, clicks, extra, lastPick>>
  /\ UNCHANGED <<rvars, tvars, fvars>>

ToggleAgree ==
  /\ ~rendered.consented
  /\ agree' = ~agree
  /\ UNCHANGED <<impl, isAdult, consented, chat, answers, idx, finished, loading,
                 selectedOption, rendered, runs, unhandled, clicks, extra, lastPick>>
  /\ UNCHANGED <<rvars, tvars, fvars>>

\* ConsentModal: Continue, enabled once both boxes are ticked
Accept ==
  /\ ~rendered.consented
  /\ isAdult /\ agree
  /\ consented' = TRUE
  /\ UNCHANGED <<impl, isAdult, agree, chat, answers, idx, finished, loading,
                 selectedOption, rendered, runs, unhandled, clicks, extra, lastPick>>
  /\ UNCHANGED <<rvars, tvars, fvars>>

\* useEffect(..., [consented]): runs after the render in which consented changed
ConsentEffect(before, now) ==
  IF now /\ ~before
  THEN <<TextMsg("assistant", IntroText), TextMsg("assistant", QuestionText(0))>>
  ELSE <<>>

\* React renders App again: the handlers now close over the current state
Render ==
  /\ rendered # Snapshot
  /\ rendered' = Snapshot
  /\ chat' = chat \o ConsentEffect(rendered.consented, consented)
  /\ UNCHANGED <<impl, isAdult, agree, consented, answers, idx, finished, loading,
                 selectedOption, runs, unhandled, clicks, extra, lastPick>>
  /\ UNCHANGED <<rvars, tvars, fvars>>

\* handlePick without its first line
PickBlockedNever(r) == FALSE

\* handlePick: if (finished) return
PickBlocked(r) == r.finished

\* { ...answers, [cur.id]: { label: opt.label, score: opt.score } }
NextAnswers(ans, id, opt) ==
  [d \in DOMAIN ans \cup {id} |->
     IF d = id THEN [label |-> opt.label, score |-> opt.score] ELSE ans[d]]

\* handlePick(opt), as the handler of the last render runs it
handlePick(opt) ==
  LET r == rendered
      cur == DOMAINS[r.idx + 1]
      nextAnswers == NextAnswers(r.answers, cur.id, opt)
      userMsg == TextMsg("user", <<opt.label>>)
      early == r # Snapshot \/ r.finished
  IN /\ early => extra < MaxExtraClicks
     /\ extra' = IF early THEN extra + 1 ELSE extra
     /\ clicks' = clicks + 1
     /\ lastPick' = [blocked |-> PickBlocked(r), stale |-> r # Snapshot, q |-> r.idx]
     /\ IF PickBlocked(r)
        THEN UNCHANGED <<answers, selectedOption, chat, idx, finished, loading, runs>>
        ELSE IF r.idx < Len(DOMAINS) - 1
        THEN /\ answers' = nextAnswers
             /\ selectedOption' = "null"
             /\ chat' = chat \o <<userMsg, TextMsg("assistant", QuestionText(r.idx + 1))>>
             /\ idx' = r.idx + 1
             /\ UNCHANGED <<finished, loading, runs>>
        ELSE /\ answers' = nextAnswers
             /\ selectedOption' = IF impl = "App" THEN opt.key ELSE "null"
             /\ chat' = chat \o <<userMsg, PartsMsg(makeRecapParts(RecapText(nextAnswers)))>>
             /\ finished' = TRUE
             /\ loading' = TRUE
             /\ runs' = Append(runs, NewRun(impl, nextAnswers))
             /\ UNCHANGED idx
     /\ UNCHANGED <<impl, isAdult, agree, consented, rendered, unhandled>>
     /\ UNCHANGED <<rvars, tvars, fvars>>

\* a click on one of the option buttons, which the render shows under showOpts
OptionClick(k) ==
  /\ showOpts
  /\ k \in PickKeys(rendered.idx)
  /\ handlePick(OPTIONS[k])

\* handlePick called once the render has finished = true and the buttons are
\* gone: the call its first line is there for
LateClick(k) ==
  /\ rendered.consented /\ rendered.finished
  /\ k \in PickKeys(rendered.idx)
  /\ handlePick(OPTIONS[k])

\* finish from the settling of its callLLM to its end: the narrative or the
\* fallback, loading off, then the caution box
FinishTail(i, threw, step, box) ==
  /\ chat' = chat \o step.pushed \o box
  /\ loading' = FALSE
  /\ unhandled' = (unhandled \/ step.escaped)
  /\ runs' = [runs EXCEPT ![i].pc = IF step.escaped THEN "threw" ELSE "done",
                          ![i].threw = threw,
                          ![i].narrAt = IF step.pushed = <<>> THEN 0 ELSE Len(chat) + 1,
                          ![i].boxAt = IF box = <<>> THEN 0
                                       ELSE Len(chat) + Len(step.pushed) + 1]

\* the caution box pushed inside the try block, after the guidance: a failed
\* call skips it
AfterTryBoxInTry(step, safety) ==
  IF step.escaped \/ step.pushed = <<TextMsg("assistant", FallbackText)>>
  THEN <<>> ELSE CautionStep(safety)

\* an error that leaves the try statement skips what follows it
AfterTry(step, safety) == IF step.escaped THEN <<>> ELSE CautionStep(safety)

FinishFrom(i, result, step) ==
  FinishTail(i, result.threw, step, AfterTry(step, runs[i].safety))

\* the relay call of run i settles with resp and finish runs to its end
Settle(i, resp) ==
  /\ runs[i].pc = "awaiting"
  /\ FinishFrom(i, callLLM(resp), NarrativeStep(impl, callLLM(resp), runs[i].safety))
  /\ UNCHANGED <<impl, isAdult, agree, consented, answers, idx, finished,
                 selectedOption, rendered, clicks, extra, lastPick>>
  /\ UNCHANGED <<rvars, tvars, fvars>>

Next ==
  \/ ToggleAdult
  \/ ToggleAgree
  \/ Accept
  \/ Render
  \/ \E k \in 1..Len(OPTIONS) : OptionClick(k)
  \/ \E k \in 1..Len(OPTIONS) : LateClick(k)
  \/ \E i \in 1..Len(runs) : \E resp \in Responses : Settle(i, resp)

Spec == Init /\ [][Next]_vars

\* ----------------------------------------------------- the relay, alone

\* the messages a request holds, at most
MaxMsgs == 2

Contents == {<<"hello">>, <<"Better", " ", "off", " ", "dead">>, <<"PHQ-9 total: ", "Write the guidance.">>}

Messages == [role : {"user", "assistant"}, content : Contents]

\* req.body: none, one whose messages is no array, or one with messages
Bodies ==
  {NoBody, [kind |-> "not_array", messages |-> <<>>]}
  \cup {[kind |-> "array", messages |-> m] : m \in UNION {[1..n -> Messages] : n \in 0..MaxMsgs}}

\* the status of the external endpoint's response
Statuses == {200, 429, 500}

\* r.ok
IsOk(status) == status >= 200 /\ status <= 299

\* the texts the external endpoint's JSON holds
UpTexts == {<<>>, <<" ">>, <<" ", "a", ".", " ">>, <<"a", "?">>, <<"Not at all", "?">>}

Datas ==
  {NullData}
  \cup {Data(Str(t), Undef, Undef, Undef, Undef) : t \in UpTexts}
  \cup {Data(Undef, Arr(items), Undef, Undef, Undef) :
          items \in {<<>>, << <<>>, << <<>> >> >>,
                     << << <<"a", ".">>, <<>> >>, << <<"a", "?">> >> >>}}
  \cup {Data(Undef, Undef, Str(t), Undef, Undef) : t \in {<<" ">>, <<"a", ".">>}}
  \cup {Data(Undef, Undef, Undef, Str(t), Undef) : t \in {<<"a", ".">>}}
  \cup {Data(Str(<<" ">>), Arr(<<>>), Undef, Undef, Str(t)) : t \in {<<>>, <<" ", "a", ".">>}}

RelayInit ==
  /\ impl = "App"
  /\ ControllerIdle
  /\ SanitizerIdle
  /\ CallIdle
  /\ variant \in Variants
  /\ hasKey \in BOOLEAN
  /\ rpc = "idle" /\ req = NoBody
  /\ timer = "unset" /\ aborted = FALSE
  /\ upstream = NoUpstream
  /\ outbound = <<>>
  /\ responses = <<>>

\* res.status(...).json(...) or .send(...), and the handler returns
Respond(resp) ==
  /\ responses' = Append(responses, resp)
  /\ rpc' = "done"

\* POST /api/llm arrives: the handler runs to its first response or to its
\* await of fetch (the first revision arms its timer before it)
Receive(body) ==
  /\ rpc = "idle"
  /\ req' = body
  /\ IF PreCheck(variant, hasKey, body).respond
     THEN /\ Respond(PreCheck(variant, hasKey, body).resp)
          /\ UNCHANGED <<timer, outbound>>
     ELSE /\ rpc' = "fetch"
          /\ timer' = IF variant = 1 THEN "armed" ELSE timer
          /\ outbound' = Append(outbound, Input(variant, body.messages))
          /\ UNCHANGED responses
  /\ UNCHANGED <<variant, hasKey, aborted, upstream, cvars, tvars, fvars>>

\* fetch rejects with a network error: the catch clause answers
FetchRejects ==
  /\ rpc = "fetch" /\ ~aborted
  /\ upstream' = [upstream EXCEPT !.fetch = "rejected"]
  /\ Respond(OnFetchRejected(variant))
  /\ UNCHANGED <<variant, hasKey, req, timer, aborted, outbound, cvars, tvars, fvars>>

\* the timer set at line 118 fires: ctrl.abort('Timeout')
TimeoutFires ==
  /\ timer = "armed"
  /\ timer' = "fired"
  /\ aborted' = TRUE
  /\ UNCHANGED <<variant, hasKey, rpc, req, upstream, outbound, responses, cvars, tvars, fvars>>

\* fetch, its signal aborted, rejects: the catch clause answers
AbortRejects ==
  /\ rpc = "fetch" /\ aborted
  /\ upstream' = [upstream EXCEPT !.fetch = "aborted"]
  /\ Respond(OnFetchRejected(variant))
  /\ UNCHANGED <<variant, hasKey, req, timer, aborted, outbound, cvars, tvars, fvars>>

\* the response's headers arrive and fetch resolves: the first revision clears
\* its timer, and the handler awaits the body
FetchResolves(status) ==
  /\ rpc = "fetch" /\ ~aborted
  /\ upstream' = [upstream EXCEPT !.fetch = "resolved", !.status = status]
  /\ timer' = IF variant = 1 THEN "cleared" ELSE timer
  /\ rpc' = IF IsOk(status) THEN "body" ELSE "errbody"
  /\ UNCHANGED <<variant, hasKey, req, aborted, outbound, responses, cvars, tvars, fvars>>

\* r.text() of a non-2xx response settles
ReadErrorBody(readOk) ==
  /\ rpc = "errbody"
  /\ upstream' = [upstream EXCEPT !.read = IF readOk THEN "read" ELSE "rejected"]
  /\ Respond(OnNotOk(variant, upstream.status, readOk))
  /\ UNCHANGED <<variant, hasKey, req, timer, aborted, outbound, cvars, tvars, fvars>>

\* r.json() of a 2xx response settles: with d, or rejected
ReadBody(parsed, d) ==
  /\ rpc = "body"
  /\ ~parsed => d = NullData
  /\ upstream' = [upstream EXCEPT !.read = IF parsed THEN "read" ELSE "rejected",
                                  !.data = d]
  /\ Respond(OnBody(variant, req.messages, parsed, d))
  /\ UNCHANGED <<variant, hasKey, req, timer, aborted, outbound, cvars, tvars, fvars>>

RelayNext ==
  \/ \E body \in Bodies : Receive(body)
  \/ FetchRejects
  \/ TimeoutFires
  \/ AbortRejects
  \/ \E status \in Statuses : FetchResolves(status)
  \/ \E readOk \in BOOLEAN : ReadErrorBody(readOk)
  \/ \E parsed \in BOOLEAN : \E d \in Datas : ReadBody(parsed, d)

RelaySpec == RelayInit /\ [][RelayNext]_vars

\* what Node's event loop guarantees: a timer that is armed fires, and a fetch
\* whose signal is aborted rejects.  Nothing makes the external endpoint send
\* its headers or its body.
FairRelaySpec ==
  RelayInit /\ [][RelayNext]_vars /\ WF_vars(TimeoutFires) /\ WF_vars(AbortRejects)

\* ------------------------------------------------- the sanitizer, alone

\* the tokens the model's texts are made of, and the longest text
Alphabet == {"988", "Immediate", "danger", " ", "\n", ".", "S"}
MaxLen == 5

Texts == UNION {[1..n -> Alphabet] : n \in 0..MaxLen}

SanitizerInit ==
  /\ impl \in Impls
  /\ ControllerIdle
  /\ RelayIdle
  /\ CallIdle
  /\ text \in Texts
  /\ omit \in BOOLEAN
  /\ parts = <<>>
  /\ tpc = "input"

\* makeGuidanceParts(text, { omitCrisis: omit })
Sanitize ==
  /\ tpc = "input"
  /\ parts' = makeGuidanceParts(impl, text, omit)
  /\ tpc' = "done"
  /\ UNCHANGED <<text, omit, cvars, rvars, fvars>>

SanitizerNext == Sanitize

SanitizerSpec == SanitizerInit /\ [][SanitizerNext]_vars

\* ------------------------------------------- totalScore and the band, alone

DomainIds == {DOMAINS[i].id : i \in 1..Len(DOMAINS)}

\* an answer record with all ten ids answered: for each id, the option picked
AnswersOf(pick) ==
  [id \in DomainIds |-> [label |-> OPTIONS[pick[id]].label, score |-> OPTIONS[pick[id]].score]]

\* the standard domains whose scores vary independently over the four
\* options; the other standard domains share one of the four
VariedDomains == 4

\* the place of a standard id in totalScore's ids
StandardIndex(id) == CHOOSE i \in 1..Len(StandardIds) : StandardIds[i] = id

\* the picks (places in OPTIONS) of the ten domains
Picks ==
  {[id \in DomainIds |->
      IF id = "si_dead" THEN sd
      ELSE IF id = "si_harm" THEN sh
      ELSE IF StandardIndex(id) <= VariedDomains THEN p[StandardIndex(id)]
      ELSE c] :
     p \in [1..VariedDomains -> 1..Len(OPTIONS)],
     c \in 1..Len(OPTIONS), sd \in 1..Len(OPTIONS), sh \in 1..Len(OPTIONS)}

ScoringInit ==
  /\ impl = "App"
  /\ ControllerIdle
  /\ RelayIdle
  /\ SanitizerIdle
  /\ fn = "totalScore"
  /\ arg \in {AnswersOf(pick) : pick \in Picks}
  /\ out = <<>>
  /\ fpc = "input"

\* finish: totalScore(ans), then band = severityFromTotal(total)
Score ==
  /\ fpc = "input" /\ fn = "totalScore"
  /\ out' = [score |-> totalScore(arg), band |-> severityFromTotal(totalScore(arg).total)]
  /\ fpc' = "done"
  /\ UNCHANGED <<fn, arg, cvars, rvars, tvars>>

ScoringNext == Score

ScoringSpec == ScoringInit /\ [][ScoringNext]_vars

\* ------------------------------------------------------ extractReply, alone

\* the bodies extractReply is called with: each field absent or present, blank
\* or with text
ExtractDatas ==
  {Data(ot, o, c, m, ch) :
     ot \in {Undef, Str(<<" ">>), Str(<<" ", "a", " ">>)},
     o \in {Undef, Arr(<<>>), Arr(<< << <<>> >> >>),
            Arr(<< << <<"b">>, <<>> >>, << <<"c", ".">> >> >>)},
     c \in {Undef, Str(<<"d">>)},
     m \in {Undef, Str(<<"e">>)},
     ch \in {Undef, Str(<<>>), Str(<<" ", "f">>)}}

\* a question-turn request and a summary request
ExtractRequests ==
  { <<[role |-> "user", content |-> <<"hello">>]>>,
    <<[role |-> "user", content |-> <<"PHQ-9 total: ", "Write the guidance.">>]>> }

ExtractInit ==
  /\ impl = "App"
  /\ ControllerIdle
  /\ RelayIdle
  /\ SanitizerIdle
  /\ fn = "extractReply"
  /\ arg \in [v : Variants, d : ExtractDatas, messages : ExtractRequests]
  /\ out = <<>>
  /\ fpc = "input"

\* reply = extractReply(data), and the response the handler makes of it
Extract ==
  /\ fpc = "input" /\ fn = "extractReply"
  /\ out' = [found |-> extractReply(arg.v, arg.d),
             resp |-> OnBody(arg.v, arg.messages, TRUE, arg.d)]
  /\ fpc' = "done"
  /\ UNCHANGED <<fn, arg, cvars, rvars, tvars>>

ExtractNext == Extract

ExtractSpec == ExtractInit /\ [][ExtractNext]_vars

\* ---------------------------------------------- sanitizeQuestionText, alone

QuestionAlphabet == {"a", "Not at all", "LongWord", "-", "\n", "/", ":", ",", "?"}

MaxQuestionLen == 5

QuestionTexts == UNION {[1..n -> QuestionAlphabet] : n \in 0..MaxQuestionLen}

QuestionInit ==
  /\ impl = "App"
  /\ ControllerIdle
  /\ RelayIdle
  /\ SanitizerIdle
  /\ fn = "sanitizeQuestionText"
  /\ arg \in QuestionTexts
  /\ out = <<>>
  /\ fpc = "input"

\* reply = sanitizeQuestionText(reply)
SanitizeQuestion ==
  /\ fpc = "input" /\ fn = "sanitizeQuestionText"
  /\ out' = sanitizeQuestionText(arg)
  /\ fpc' = "done"
  /\ UNCHANGED <<fn, arg, cvars, rvars, tvars>>

QuestionNext == SanitizeQuestion

QuestionSpec == QuestionInit /\ [][QuestionNext]_vars

\* ---------------------------------------------- containsRiskLanguage, alone

\* phrases with and without a pattern in them
RiskPhrases ==
  {<<"SUICIDE">>, <<"Kill", " ", "myself">>, <<"end", " ", "my", " ", "life">>,
   <<"can(u2019)t", " ", "go", " ", "on">>, <<"Can't", " ", "go", " ", "on">>,
   <<"self", "-", "harm">>, <<"Self", " ", "harm">>, <<"hurt", " ", "myself">>,
   <<"take", " ", "my", " ", "life">>, <<"Better", " ", "off", " ", "dead">>,
   <<>>, <<"kill", "\n", "myself">>, <<"kill", " ", " ", "myself">>, <<"suicidal">>,
   <<"cant", " ", "go", " ", "on">>, <<"I", " ", "feel", " ", "okay", " ", "today">>}

\* what surrounds a phrase
PadAlphabet == {"a", " ", "s"}
MaxPad == 1
Pads == UNION {[1..n -> PadAlphabet] : n \in 0..MaxPad}

RiskInit ==
  /\ impl = "App"
  /\ ControllerIdle
  /\ RelayIdle
  /\ SanitizerIdle
  /\ fn = "containsRiskLanguage"
  /\ arg \in {[v |-> v, s |-> pre \o ph \o post] :
                v \in Variants, pre \in Pads, ph \in RiskPhrases, post \in Pads}
  /\ out = <<>>
  /\ fpc = "input"

\* hasRisk = containsRiskLanguage(userBlob)
Screen ==
  /\ fpc = "input" /\ fn = "containsRiskLanguage"
  /\ out' = containsRiskLanguage(arg.v, arg.s)
  /\ fpc' = "done"
  /\ UNCHANGED <<fn, arg, cvars, rvars, tvars>>

RiskNext == Screen

RiskSpec == RiskInit /\ [][RiskNext]_vars

\* ------------------------------------- the summary request, at the relay

\* the answer records finish is called with: the eight standard domains share
\* one option, the two safety domains have one each
SummaryAnswers ==
  {AnswersOf([id \in DomainIds |->
                IF id = "si_dead" THEN sd ELSE IF id = "si_harm" THEN sh ELSE c]) :
     c \in 1..Len(OPTIONS), sd \in 1..Len(OPTIONS), sh \in 1..Len(OPTIONS)}

SummaryInit ==
  /\ impl \in Impls
  /\ ControllerIdle
  /\ SanitizerIdle
  /\ fn = "callLLM" /\ arg \in SummaryAnswers /\ out = <<>> /\ fpc = "input"
  /\ variant \in Variants
  /\ hasKey \in BOOLEAN
  /\ rpc = "idle" /\ req = NoBody
  /\ timer = "unset" /\ aborted = FALSE
  /\ upstream = NoUpstream
  /\ outbound = <<>>
  /\ responses = <<>>

\* callLLM(msgs) of finish: JSON.stringify({ messages }) arrives at the relay
SendSummary == Receive([kind |-> "array", messages |-> SummaryMsgs(impl, arg)])

SummaryNext ==
  \/ SendSummary
  \/ FetchRejects
  \/ TimeoutFires
  \/ AbortRejects
  \/ \E status \in Statuses : FetchResolves(status)
  \/ \E readOk \in BOOLEAN : ReadErrorBody(readOk)
  \/ \E parsed \in BOOLEAN : \E d \in Datas : ReadBody(parsed, d)

SummarySpec == SummaryInit /\ [][SummaryNext]_vars

\* ------------------------------------------- finish, from its await on

\* the tokens of the relay's replies, and the longest reply
ReplyAlphabet == {"U", ".", "S", " ", "a", "988"}
MaxReplyLen == 4

\* what the relay call comes to: a failure, or a reply, which the relay never
\* sends blank
FinishResponses ==
  {Response(k, <<>>) : k \in FailureKinds}
  \cup {Response("reply", t) :
          t \in {x \in UNION {[1..n -> ReplyAlphabet] : n \in 1..MaxReplyLen} :
                   TrimText(x) # <<>>}}

\* the answer records of the runs: every domain "Not at all", or si_harm
\* "More than half the days"
FinishAnswers ==
  {AnswersOf([id \in DomainIds |-> IF id = "si_harm" THEN sh ELSE 1]) : sh \in {1, 3}}

\* the transcript of an interview answered with ans, up to question n
RECURSIVE Interview(_, _)
Interview(ans, n) ==
  IF n = 0 THEN <<TextMsg("assistant", IntroText)>>
  ELSE Interview(ans, n - 1)
       \o <<TextMsg("assistant", QuestionText(n - 1)),
            TextMsg("user", <<ans[DOMAINS[n].id].label>>)>>

\* the controller once finish(ans) has reached its await and React has
\* rendered; arg is what the relay call will come to
FinishInit ==
  /\ impl \in Impls
  /\ isAdult = TRUE /\ agree = TRUE /\ consented = TRUE
  /\ answers \in FinishAnswers
  /\ chat = Interview(answers, Len(DOMAINS))
            \o <<PartsMsg(makeRecapParts(RecapText(answers)))>>
  /\ idx = Len(DOMAINS) - 1
  /\ finished = TRUE /\ loading = TRUE
  /\ selectedOption = IF impl = "App" THEN NumStr(answers["si_harm"].score) ELSE "null"
  /\ rendered = Snapshot
  /\ runs = <<NewRun(impl, answers)>>
  /\ unhandled = FALSE
  /\ clicks = Len(DOMAINS) /\ extra = 0
  /\ lastPick = [blocked |-> FALSE, stale |-> FALSE, q |-> Len(DOMAINS) - 1]
  /\ RelayIdle
  /\ SanitizerIdle
  /\ fn = "finish" /\ arg \in FinishResponses /\ out = <<>> /\ fpc = "input"

\* the relay call of the run settles with the response arg
FinishNext == Settle(1, arg)

FinishSpec == FinishInit /\ [][FinishNext]_vars

\* ------------------------------------------------------------ the claims

Settled(i) == runs[i].pc # "awaiting"

\* max(si_dead score, si_harm score) of the answers run i was started with
RunSafety(i) ==
  MaxOf(ScoreOrZero(runs[i].ans, "si_dead"), ScoreOrZero(runs[i].ans, "si_harm"))

IsBox(m) == m.kind = "box"
IsFallback(m) == m.kind = "content" /\ m.role = "assistant" /\ m.body = FallbackText
IsGuidance(i, m) ==
  m.kind = "parts" /\ m.body # makeRecapParts(RecapText(runs[i].ans))
IsUserMsg(m) == m.kind = "content" /\ m.role = "user"
IsQuestion(m, q) == m.kind = "content" /\ m.role = "assistant" /\ m.body = QuestionText(q)

Count(P(_)) == Cardinality({j \in 1..Len(chat) : P(chat[j])})

\* C1: every run of finish that has ended, whatever its relay call came to,
\* pushed its narrative (guidance or fallback) and then, directly after it, the
\* caution box if and only if max(si_dead, si_harm) of its answers is above 0;
\* the transcript holds no caution box but those.
C1_CautionBoxIffSafety ==
  /\ \A i \in 1..Len(runs) :
       Settled(i) =>
         /\ runs[i].narrAt > 0
         /\ IsFallback(chat[runs[i].narrAt]) \/ IsGuidance(i, chat[runs[i].narrAt])
         /\ IF RunSafety(i) > 0
            THEN /\ Len(chat) > runs[i].narrAt
                 /\ IsBox(chat[runs[i].narrAt + 1])
                 /\ runs[i].boxAt = runs[i].narrAt + 1
            ELSE /\ runs[i].boxAt = 0
                 /\ Len(chat) > runs[i].narrAt => ~IsBox(chat[runs[i].narrAt + 1])
  /\ Count(IsBox) = Cardinality({i \in 1..Len(runs) : Settled(i) /\ RunSafety(i) > 0})

\* a run that ended with guidance and the box, and one that ended without a box
C1_Witness ==
  /\ \E i \in 1..Len(runs) :
       Settled(i) /\ ~runs[i].threw /\ RunSafety(i) > 0 /\ IsBox(chat[runs[i].narrAt + 1])
  /\ \E i \in 1..Len(runs) : Settled(i) /\ RunSafety(i) = 0

\* C2: one answer is accepted per question: every question is pushed at most
\* once and the transcript holds exactly one user message per answered question.
C2_OneAnswerPerQuestion ==
  /\ \A q \in 0..(Len(DOMAINS) - 1) :
       Cardinality({j \in 1..Len(chat) : IsQuestion(chat[j], q)}) <= 1
  /\ Count(IsUserMsg) = Cardinality(DOMAIN answers)

\* C3: finish is entered at most once and at most one relay call is ever issued.
C3_SummaryRunsOnce ==
  /\ Len(runs) <= 1
  /\ Cardinality({i \in 1..Len(runs) : ~Settled(i)}) <= 1

\* C4: a run of finish whose relay call failed has ended, issued that one call
\* only, pushed the fallback sentence as its narrative (the transcript holds
\* one fallback per failed run), pushed the caution box after it when its
\* safety is above 0, and let no error out.
C4_FailureFallsBack ==
  /\ ~unhandled
  /\ \A i \in 1..Len(runs) :
       /\ runs[i].calls = 1
       /\ (Settled(i) /\ runs[i].threw) =>
            /\ runs[i].pc = "done"
            /\ runs[i].narrAt > 0
            /\ IsFallback(chat[runs[i].narrAt])
            /\ RunSafety(i) > 0 =>
                 (Len(chat) > runs[i].narrAt /\ IsBox(chat[runs[i].narrAt + 1]))
  /\ Count(IsFallback) = Cardinality({i \in 1..Len(runs) : Settled(i) /\ runs[i].threw})

\* a run whose call failed, ended, with the box after its fallback
C4_Witness ==
  \E i \in 1..Len(runs) :
     /\ Settled(i) /\ runs[i].threw /\ RunSafety(i) > 0
     /\ IsFallback(chat[runs[i].narrAt])

\* C5: no user message that finish passes to callLLM holds the safety
\* sub-score line.
C5_PayloadOmitsSafetyLine ==
  \A i \in 1..Len(runs) : \A m \in 1..Len(runs[i].msgs) :
     runs[i].msgs[m].role = "user" =>
       \A j \in 1..Len(runs[i].msgs[m].content) :
          runs[i].msgs[m].content[j] # SafetyDetailsLead

\* C9: once finished is true for handlePick (in the render whose handler
\* runs), a handlePick changes neither the answers, nor idx, nor the
\* transcript, and starts no relay call.
C9_FinishedBlocksPick ==
  [][(clicks' # clicks /\ rendered.finished) =>
       (answers' = answers /\ idx' = idx /\ chat' = chat /\ runs' = runs)]_vars

\* handlePick has run on a render with finished = true
C9_Witness == lastPick.blocked /\ finished /\ rendered.finished

\* C10: an entry of answers, once set, is never changed, and answers holds all
\* ten ids only once the tenth question has been answered.
C10_AnswersNeverReplaced ==
  /\ [][\A id \in DOMAIN answers : id \in DOMAIN answers' /\ answers'[id] = answers[id]]_vars
  /\ [](Cardinality(DOMAIN answers) = Len(DOMAINS) => finished)

\* C8: makeGuidanceParts(text, { omitCrisis: true }) returns no part whose text
\* matches /(988|911|immediate danger)/i, however many crisis sentences the
\* text holds.
C8_OmitCrisisLeavesNone ==
  (tpc = "done" /\ omit) => \A i \in 1..Len(parts) : ~crisis(parts[i].text)

\* a text with two crisis sentences, sanitized with omitCrisis
C8_Witness ==
  /\ tpc = "done" /\ omit
  /\ Len(SelectSeq(SplitSentences(text), crisis)) >= 2

\* the outbound call failed: fetch rejected (network error, abort), or the
\* external endpoint answered with a non-2xx status
FetchFailed == upstream.fetch \in {"rejected", "aborted"}
UpstreamNotOk == upstream.fetch = "resolved" /\ ~IsOk(upstream.status)

\* C6 (as claimed): a request whose outbound call failed with a network error,
\* an abort or a non-2xx status is answered with the fallback {reply}, and only
\* a missing credential is answered with an error.
C6_FailuresGetFallback ==
  (rpc = "done" /\ responses # <<>>) =>
     /\ (FetchFailed \/ UpstreamNotOk) =>
           responses[1] = Resp(200, "reply", RelayFallback(variant))
     /\ responses[1].kind # "reply" => ~hasKey

\* C6 (amended): a request whose fetch was rejected, by a network error or by
\* the abort, is answered 500 with an error; one whose upstream status is not
\* 2xx is answered 502 with an error by the first revision and, by the second,
\* with the upstream status and body as text (500 if the body cannot be read);
\* the fallback {reply} goes only to a request whose upstream status was 2xx;
\* and the requests answered with an error are those without credential,
\* without messages, with a failed outbound call, or (second revision) with a
\* 2xx body that is no JSON.
C6_FailureResponses ==
  rpc = "done" =>
     /\ Len(responses) = 1
     /\ FetchFailed => (responses[1].status = 500 /\ responses[1].kind # "reply")
     /\ UpstreamNotOk =>
          /\ responses[1].kind # "reply"
          /\ responses[1].status =
               IF variant = 1 THEN 502
               ELSE IF upstream.read = "read" THEN upstream.status ELSE 500
     /\ responses[1].body = RelayFallback(variant) =>
          /\ responses[1].status = 200 /\ responses[1].kind = "reply"
          /\ upstream.fetch = "resolved" /\ IsOk(upstream.status)
     /\ responses[1].kind # "reply" <=>
          \/ ~hasKey
          \/ NoMessages(req)
          \/ FetchFailed
          \/ UpstreamNotOk
          \/ variant = 2 /\ upstream.read = "rejected"

\* the timer has fired, the fetch was aborted, and the request is answered
C6_Witness ==
  /\ rpc = "done" /\ upstream.fetch = "aborted" /\ timer = "fired"
  /\ responses = <<Resp(500, "error", <<"Server error">>)>>

\* C7: a request that waits for the external endpoint (for its headers or for
\* its body) is eventually answered, with exactly one response.
C7_EveryRequestAnswered ==
  (rpc \in {"fetch", "errbody", "body"}) ~> (rpc = "done" /\ Len(responses) = 1)

\* the sum of the eight standard-domain scores of a complete answer record
StandardSum(a) ==
  a["interest"].score + a["mood"].score + a["sleep"].score + a["energy"].score
  + a["appetite"].score + a["self_worth"].score + a["concentration"].score
  + a["psychomotor"].score

\* C11: for an answer record whose ten domains score 0..3, totalScore returns
\* safety = max(si_dead, si_harm), which is not their sum when both are above
\* 0, and total = (sum of the eight standard scores) + safety, within 0..27.
C11_TotalScore ==
  (fpc = "done" /\ fn = "totalScore") =>
     LET sd == arg["si_dead"].score
         sh == arg["si_harm"].score
     IN /\ out.score.safety = (IF sd >= sh THEN sd ELSE sh)
        /\ (sd > 0 /\ sh > 0) => out.score.safety # sd + sh
        /\ out.score.total = StandardSum(arg) + out.score.safety
        /\ out.score.total >= 0 /\ out.score.total <= 27

\* totalScore called with every standard score 3, si_dead 2 and si_harm 3
C11_Witness ==
  /\ fpc = "done" /\ fn = "totalScore"
  /\ StandardSum(arg) = 24 /\ arg["si_dead"].score = 2 /\ arg["si_harm"].score = 3
  /\ out.score.total = 27

\* the place of a band among the five
BandRank(band) ==
  CASE band = "Minimal (0-4)" -> 1
    [] band = "Mild (5-9)" -> 2
    [] band = "Moderate (10-14)" -> 3
    [] band = "Moderately severe (15-19)" -> 4
    [] band = "Severe (20-27)" -> 5
    [] OTHER -> 0

\* C12: the band of a total in 0..27 is Minimal for 0..4, Mild for 5..9,
\* Moderate for 10..14, Moderately severe for 15..19 and Severe for 20..27,
\* and no smaller total has a higher band.
C12_SeverityBands ==
  (fpc = "done" /\ fn = "totalScore") =>
     LET t == out.score.total
     IN /\ t \in 0..27
        /\ BandRank(out.band) =
             (IF t <= 4 THEN 1 ELSE IF t <= 9 THEN 2 ELSE IF t <= 14 THEN 3
              ELSE IF t <= 19 THEN 4 ELSE 5)
        /\ \A u \in 0..t : BandRank(severityFromTotal(u)) <= BandRank(out.band)
        /\ \A u \in 0..t : BandRank(severityFromTotal(u)) >= 1

\* the band of a total that sits on a threshold
C12_Witness ==
  /\ fpc = "done" /\ fn = "totalScore"
  /\ out.score.total = 19 /\ out.band = "Moderately severe (15-19)"

\* C13: a request that comes when no credential is configured is answered
\* 500, one that comes with a credential and a body whose messages is
\* missing, no array or empty is answered 400, and for neither is the external
\* endpoint called.
C13_RejectedBeforeFetch ==
  rpc # "idle" =>
     /\ ~hasKey =>
          /\ rpc = "done" /\ outbound = <<>>
          /\ Len(responses) = 1 /\ responses[1].status = 500
     /\ (hasKey /\ (req.kind # "array" \/ Len(req.messages) = 0)) =>
          /\ rpc = "done" /\ outbound = <<>>
          /\ Len(responses) = 1 /\ responses[1].status = 400

\* a request with a credential and an empty messages array, answered 400
C13_Witness ==
  /\ rpc = "done" /\ hasKey /\ req.kind = "array" /\ req.messages = <<>>
  /\ responses = <<Resp(400, "error", <<"messages array required">>)>>
  /\ outbound = <<>>

\* the text of the first of the shapes output_text, output parts, legacy
\* choices that yields non-empty trimmed text; <<>> when none does
ThreeShapes(d) ==
  IF d.output_text.type = "string" /\ TrimText(d.output_text.val) # <<>>
  THEN TrimText(d.output_text.val)
  ELSE IF d.output.type = "array" /\ TrimText(JoinSpace(FlatTexts(d.output.val))) # <<>>
  THEN TrimText(JoinSpace(FlatTexts(d.output.val)))
  ELSE IF d.choice.type = "string" THEN TrimText(d.choice.val)
  ELSE <<>>

\* the same with the top-level content and message strings tried before the
\* legacy shape
FiveShapes(d) ==
  IF d.output_text.type = "string" /\ TrimText(d.output_text.val) # <<>>
  THEN TrimText(d.output_text.val)
  ELSE IF d.output.type = "array" /\ TrimText(JoinSpace(FlatTexts(d.output.val))) # <<>>
  THEN TrimText(JoinSpace(FlatTexts(d.output.val)))
  ELSE IF d.content.type = "string" /\ TrimText(d.content.val) # <<>>
  THEN TrimText(d.content.val)
  ELSE IF d.message.type = "string" /\ TrimText(d.message.val) # <<>>
  THEN TrimText(d.message.val)
  ELSE IF d.choice.type = "string" THEN TrimText(d.choice.val)
  ELSE <<>>

ExtractFailed == out.found.null \/ out.found.val = <<>>

\* C14 (as claimed): extractReply returns the text of the first of the three
\* shapes that yields non-empty text, fails when none does, and the relay
\* answers a failure with its fallback reply.
C14_ThreeShapesThenFallback ==
  (fpc = "done" /\ fn = "extractReply") =>
     /\ ExtractFailed <=> ThreeShapes(arg.d) = <<>>
     /\ ~ExtractFailed => out.found.val = ThreeShapes(arg.d)
     /\ ExtractFailed => out.resp = Resp(200, "reply", RelayFallback(arg.v))

\* C14 (amended): the first revision does so; the second tries the top-level
\* content and message strings after the output parts and before the legacy
\* shape, and its relay answers a failure with the fallback reply in the
\* summary phase and with "(No response)" otherwise.
C14_ExtractOrder ==
  (fpc = "done" /\ fn = "extractReply") =>
     LET expected == IF arg.v = 1 THEN ThreeShapes(arg.d) ELSE FiveShapes(arg.d)
     IN /\ ExtractFailed <=> expected = <<>>
        /\ ~ExtractFailed => out.found.val = expected
        /\ ExtractFailed =>
             out.resp = Resp(200, "reply",
                             IF arg.v = 1 \/ clientHasSummaryOnly(arg.messages)
                             THEN RelayFallback(arg.v) ELSE <<"(No response)">>)

\* the second revision returns the top-level message string of a body whose
\* output_text is blank, whose output is empty and which has a legacy shape
C14_Witness ==
  /\ fpc = "done" /\ fn = "extractReply" /\ arg.v = 2
  /\ arg.d.output_text = Str(<<" ">>) /\ arg.d.output = Arr(<<>>)
  /\ arg.d.content = Undef /\ arg.d.choice = Str(<<" ", "f">>)
  /\ out.found = Found(<<"e">>)

\* a line of t starts with list markers followed by whitespace
HasListMarker(t) ==
  \E a \in 1..Len(t) : \E k \in a..(Len(t) - 1) :
     /\ a = 1 \/ t[a - 1] = "\n"
     /\ \A j \in a..k : IsListMark(t[j])
     /\ IsWs(t[k + 1])

\* an enumeration: items between slashes, or after a colon and separated by
\* commas
HasEnumeration(t) ==
  \/ \E i, j \in 1..Len(t) : j > i + 1 /\ t[i] = "/" /\ t[j] = "/"
  \/ \E i, j \in 1..Len(t) : j > i /\ t[i] = ":" /\ t[j] = ","

\* the content a question must not show
Leaks(t) ==
  LET one == TrimText(NormalizeFrom(t, 1))
  IN \/ \E i \in 1..Len(one) : IsChoiceLabel(one[i])
     \/ HasListMarker(TrimText(t))
     \/ HasEnumeration(one)
     \/ Cardinality({i \in 1..Len(one) : IsTerm(one[i])}) > 1
     \/ TextLen(one) > 240

\* C15: sanitizeQuestionText returns the generic question exactly when the
\* normalized text ends with "?" and shows an option label, a list marker, an
\* enumeration, more than one sentence terminator or more than 240 characters,
\* and the normalized text otherwise.
C15_GenericIffLeak ==
  (fpc = "done" /\ fn = "sanitizeQuestionText") =>
     LET one == TrimText(NormalizeFrom(arg, 1))
     IN IF one # <<>> /\ one[Len(one)] = "?" /\ Leaks(arg)
        THEN out = GenericQuestion
        ELSE out = one

\* parts.map(p => p.text).join('')
RECURSIVE ConcatTexts(_)
ConcatTexts(ps) == IF ps = <<>> THEN <<>> ELSE Head(ps).text \o ConcatTexts(Tail(ps))

\* C16: the artifact cleanup leaves the concatenated texts of
\* makeGuidanceParts(text) as they are.
C16_CleanupIdempotent ==
  (tpc = "done" /\ impl = "part_000") =>
     cleanModelText(ConcatTexts(parts)) = ConcatTexts(parts)

\* the crisis substrings, the contraction variants of "can't go on" included
CrisisSubstrings ==
  {<<"suicide">>, <<"kill", " ", "myself">>, <<"end", " ", "my", " ", "life">>,
   <<"can't", " ", "go", " ", "on">>, <<"can(u2019)t", " ", "go", " ", "on">>,
   <<"self", "-", "harm">>, <<"self", " ", "harm">>, <<"hurt", " ", "myself">>,
   <<"take", " ", "my", " ", "life">>, <<"better", " ", "off", " ", "dead">>}

\* C17: containsRiskLanguage is true exactly when the lower-cased text
\* contains one of the crisis substrings, whatever surrounds it, and false for
\* the empty text.
C17_RiskIffSubstring ==
  (fpc = "done" /\ fn = "containsRiskLanguage") =>
     LET t == [i \in 1..Len(arg.s) |-> LowerPhrase(arg.s[i])]
     IN out = (\E p \in CrisisSubstrings : Includes(t, p))

\* one of the last four user messages of the request holds risk language
RecentRisk(messages) ==
  \E i \in 1..Len(messages) :
     /\ messages[i].role = "user"
     /\ Cardinality({j \in (i + 1)..Len(messages) : messages[j].role = "user"}) < 4
     /\ containsRiskLanguage(2, messages[i].content)

GuardedRequest ==
  /\ variant = 2 /\ hasKey
  /\ req.kind = "array" /\ req.messages # <<>>
  /\ ~clientHasSummaryOnly(req.messages)
  /\ RecentRisk(req.messages)

\* C20: the second revision answers a question-turn request whose recent user
\* messages hold risk language with the fixed safety message, and makes no
\* call to the external model for it.
C20_CrisisGuardShortCircuits ==
  GuardedRequest =>
     /\ rpc = "done"
     /\ responses = <<Resp(200, "reply", CrisisGuardReply)>>
     /\ outbound = <<>>

\* the risk language is in the user message before the assistant's last one
C20_Witness ==
  /\ GuardedRequest
  /\ Len(req.messages) = 2
  /\ req.messages[1] = [role |-> "user", content |-> <<"Better", " ", "off", " ", "dead">>]
  /\ req.messages[2].role = "assistant"
  /\ responses = <<Resp(200, "reply", CrisisGuardReply)>>

\* a message some part of which carries crisis wording
HasCrisisPart(m) == \E k \in 1..Len(m.body) : crisis(m.body[k].text)

\* the places of the transcript's generated-guidance messages
GuidancePlaces == {runs[i].narrAt : i \in {r \in 1..Len(runs) : Settled(r) /\ ~runs[r].threw}}

\* C18: a transcript with safety above 0 whose relay call succeeded renders
\* crisis wording in the caution box and in no part of a generated-guidance
\* message.
C18_CrisisOnlyInBox ==
  (\E i \in 1..Len(runs) : Settled(i) /\ ~runs[i].threw /\ RunSafety(i) > 0) =>
     /\ \E j \in 1..Len(chat) : IsBox(chat[j]) /\ HasCrisisPart(chat[j])
     /\ \A j \in GuidancePlaces : ~HasCrisisPart(chat[j])

\* the place of the controller's state in the order AwaitingConsent,
\* AskingQuestion(0..9), GeneratingSummary, Finished
StateRank ==
  IF ~consented THEN 0
  ELSE IF ~finished THEN idx + 1
  ELSE IF loading THEN Len(DOMAINS) + 1
  ELSE Len(DOMAINS) + 2

\* handlePick took an answer in this step
AnswerAccepted == clicks' = clicks + 1 /\ ~lastPick'.blocked

\* C19: the controller's states occur in the order AwaitingConsent,
\* AskingQuestion(0), ..., AskingQuestion(9), GeneratingSummary, Finished; an
\* answer is accepted only after consent, at question i < 9 it moves to
\* question i + 1, at question 9 it starts the summary with all ten ids
\* answered, and idx stays within 0..9.
C19_StatesInOrder ==
  [][ /\ StateRank' = StateRank \/ StateRank' = StateRank + 1
      /\ idx' \in 0..(Len(DOMAINS) - 1)
      /\ AnswerAccepted =>
           /\ consented /\ ~finished
           /\ IF idx < Len(DOMAINS) - 1
              THEN idx' = idx + 1 /\ ~finished'
              ELSE /\ finished' /\ loading'
                   /\ Len(runs') = Len(runs) + 1
                   /\ DOMAIN runs'[Len(runs')].ans = DomainIds ]_vars

\* C21: the relay never answers the summary request of finish with its crisis
\* guard: it takes the request for the summary phase and forwards it to the
\* external model, although the recap it carries holds "better off dead".
C21_SummaryNotShortCircuited ==
  (fn = "callLLM" /\ rpc # "idle" /\ hasKey) =>
     /\ containsRiskLanguage(2, recentUserText(req.messages))
     /\ clientHasSummaryOnly(req.messages)
     /\ outbound = <<Input(variant, req.messages)>>
     /\ variant = 2 => outbound[1][1].content = SYSTEM_SUMMARY_RELAY
     /\ \A i \in 1..Len(responses) : responses[i].body # CrisisGuardReply

\* the second revision has forwarded the summary of a record whose safety
\* answers are both "Not at all"
C21_Witness ==
  /\ fn = "callLLM" /\ variant = 2 /\ hasKey /\ rpc = "fetch"
  /\ arg["si_dead"].score = 0 /\ arg["si_harm"].score = 0
  /\ Len(outbound) = 1

\* the narrative of run i: the message pushed after its recap
NarrativeOf(i) == chat[runs[i].narrAt]

\* a guidance message with a part that shows text, or the fallback sentence
NonEmptyNarrative(m) ==
  \/ IsFallback(m)
  \/ /\ m.kind = "parts"
     /\ \E k \in 1..Len(m.body) : TrimText(m.body[k].text) # <<>>

\* C22: once the summary phase is over, the transcript holds after the recap a
\* narrative that is not empty: guidance with a part that has text, or the
\* fallback sentence.
C22_NarrativeNotEmpty ==
  (fn = "finish" /\ Settled(1)) =>
     /\ runs[1].narrAt = Len(Interview(answers, Len(DOMAINS))) + 2
     /\ NonEmptyNarrative(NarrativeOf(1))

\* where "U.S." stands in t
AbbreviationsIn(t) ==
  {i \in 1..(Len(t) - 3) : SubSeq(t, i, i + 3) = <<"U", ".", "S", ".">>}

IsInk(c) == ~IsWs(c)

\* what the parts of a message show, without the spaces between them
ShownInk(m) == SelectSeq(ConcatTexts(m.body), IsInk)

\* C23: each "U.S." of the relay's reply is shown intact by the guidance parts,
\* in both revisions of the cleanup (no sentence of the reply being one the
\* crisis filter removes).
C23_AbbreviationIntact ==
  (fn = "finish" /\ Settled(1) /\ arg.kind = "reply" /\ ~crisis(arg.reply)) =>
     Cardinality(AbbreviationsIn(ShownInk(NarrativeOf(1))))
        >= Cardinality(AbbreviationsIn(arg.reply))

\* a relay call of finish is in flight
CallPending == \E i \in 1..Len(runs) : runs[i].pc = "awaiting"

\* C24: the loading indicator is on exactly while a relay call is in flight:
\* on from before the call is issued until it settles, off whenever no call
\* is pending, and so off in every state from which no further step is
\* possible (a pending call can always settle).
C24_LoadingIffPending == loading <=> CallPending

=============================================================================
